---- MODULE Spec2Model ----
(***************************************************************************)
(* Lo2T: the event store (src/src/lo2t/db.py, class Lo2tDb) driven by the   *)
(* events the notice decoders produce (src/src/lo2t/decode), the ingestion  *)
(* loop (src/src/lo2t/receiver.py, class GcnNotices) and the decoder        *)
(* registry (src/src/lo2t/decode/base.py).  Spec is the store under the     *)
(* calls of its interface, ListenSpec the receiver process, RegistrySpec    *)
(* a process that registers processor classes, DecodeSpec a process that    *)
(* decodes notices and stores them, and ListenLiveSpec the receiver with    *)
(* fair scheduling and a consumer whose messages raise nothing.             *)
(*                                                                         *)
(* Python values are modelled as follows.  None and SQL NULL are the empty *)
(* tuple <<>>, any other value v is the one-element tuple <<v>>.  A Python  *)
(* object is a function from attribute names to values; an attribute the   *)
(* object does not have is outside the function's DOMAIN, which is where    *)
(* the code's "except AttributeError" branches are taken.  A sqlite table   *)
(* is the sequence of its rows in rowid order, so that nothing in the       *)
(* representation itself keeps ids unique.  TEXT values that the code       *)
(* compares in SQL are sequences of character codes, compared bytewise as   *)
(* sqlite's BINARY collation does.                                          *)
(***************************************************************************)
EXTENDS Integers, Sequences, FiniteSets, TLC

VARIABLES
    events,     \* rows of the events table, in rowid order
    settings,   \* the settings table: name -> value
    now,        \* the wall clock read by datetime.datetime.now()
    nAdds,      \* number of add_event calls made so far
    last,       \* the last call made on the store: name, arguments, result
    schema,     \* the tables of the database file: name -> columns
    notice_limit,   \* GcnNotices.notice_limit: topic -> configured limit
    notice_counter, \* GcnNotices.notice_counter: topic -> messages counted
    notices,    \* the files of the notices directory: name and content
    pc,         \* where GcnNotices.listen stands
    timeout,    \* the timeout listen was called with, in seconds
    elapsed,    \* seconds of time.time() since listen read time_start
    polls,      \* consumer.consume calls made so far
    batch,      \* the messages of the current poll not yet iterated over
    handled,    \* the last message the for loop took, and what came of it
    persisted,  \* topic -> number of save_message calls that wrote a file
    registered_gcn_processors,  \* decode.base: format key -> processor class
    registrations,  \* the add_gcn_processor calls made so far, in order
    resolved,   \* the last _get_processor_factory call: key and result
    decoded     \* the last decoding call: its path, notice and result

storeVars == <<events, settings, now, nAdds, last, schema>>

listenVars == <<notice_limit, notice_counter, notices, pc, timeout, elapsed,
                polls, batch, handled, persisted>>

registryVars == <<registered_gcn_processors, registrations, resolved>>

decodeVars == <<decoded>>

vars == <<storeVars, listenVars, registryVars, decodeVars>>

----------------------------------------------------------------------------
\* Bounds of the model.

\* messages in the list one consume() call returns
MaxBatch == 2

\* consume() calls per behaviour
MaxPolls == 1

\* seconds the clock advances after listen has read time_start
MaxElapsed == 1

\* add_gcn_processor calls per behaviour
MaxRegistrations == 3

\* add_event calls per behaviour
MaxAdds == 2
\* the clock stops advancing here
MaxClock == 1

----------------------------------------------------------------------------
\* Values.

None == <<>>
NULL == <<>>
Some(v) == <<v>>

\* how a call ends: it returns a value, or it raises an exception
Return(v) == [raised |-> "", value |-> v]

Raised(exc) == [raised |-> exc, value |-> None]

\* config["lo2t"]["healpix_nside"]: the resolution of the store's index
healpix_nside == 2

\* character codes of the TEXT values sqlite compares
Ch == [plus |-> 43, dot |-> 46, zero |-> 48, five |-> 53, Z |-> 90]

\* memcmp order on TEXT (sqlite BINARY collation): a <= b
RECURSIVE TextLeq(_, _)
TextLeq(a, b) ==
    IF a = <<>> THEN TRUE
    ELSE IF b = <<>> THEN FALSE
    ELSE IF Head(a) < Head(b) THEN TRUE
    ELSE IF Head(a) > Head(b) THEN FALSE
    ELSE TextLeq(Tail(a), Tail(b))

TextLt(a, b) == TextLeq(a, b) /\ a # b

\* A datetime is a whole number of half seconds since the start of the
\* minute the model plays in.  The registered adapter prints it with
\* isoformat(): the seconds, the fraction only when it is not zero, and the
\* UTC offset.
adapt_datetime_iso(val) ==
    <<Ch.zero + ((val \div 2) \div 10), Ch.zero + ((val \div 2) % 10)>>
    \o (IF val % 2 = 0 THEN <<>> ELSE <<Ch.dot, Ch.five>>)
    \o <<Ch.plus>>

\* datetime.datetime.now().strftime("%Y-%m-%dT%H:%M:%S.%fZ"): the seconds
\* and always the fraction
strftime_now(t) ==
    <<Ch.zero + ((t \div 2) \div 10), Ch.zero + ((t \div 2) % 10), Ch.dot,
      IF t % 2 = 0 THEN Ch.zero ELSE Ch.five, Ch.Z>>

----------------------------------------------------------------------------
\* The decoders (src/src/lo2t/decode): what an event handed to the store
\* looks like.

\* class attributes every processor inherits
GcnNoticeProcessor ==
    [index |-> None, alert_type |-> None, time |-> None,
     position |-> <<None, None>>, healpix_index |-> None,
     position_err |-> <<None, None>>, distance |-> <<None, None>>,
     data |-> None]

\* JsonProcessor.__init__ followed by decode_message, which sets the topic
JsonProcessor(topic) ==
    [skymap |-> None, topic |-> Some(topic)] @@ GcnNoticeProcessor

\* VoeventProcessor.__init__ and process: neither topic nor skymap exists
VoeventProcessor == GcnNoticeProcessor

\* ah.uniq_to_level_ipix: uniq = 4 * 4^level + ipix
RECURSIVE uniq_level(_)
uniq_level(uniq) == IF uniq < 16 THEN 0 ELSE 1 + uniq_level(uniq \div 4)

RECURSIVE Pow4(_)
Pow4(n) == IF n = 0 THEN 1 ELSE 4 * Pow4(n - 1)

RECURSIVE Pow2(_)
Pow2(n) == IF n = 0 THEN 1 ELSE 2 * Pow2(n - 1)

uniq_to_level_ipix(uniq) ==
    <<uniq_level(uniq), uniq - 4 * Pow4(uniq_level(uniq))>>

level_to_nside(level) == Pow2(level)

\* An angle with its unit (astropy Longitude / Latitude).  The value names
\* the point it is a coordinate of: the centre of nested pixel ipix at nside.
Quantity(value, unit) == [value |-> value, unit |-> unit]

\* ah.healpix_to_lonlat(ipix, nside, order="nested"): the centre of the pixel
healpix_to_lonlat(ipix, nside) ==
    <<Some(Quantity([axis |-> "lon", nside |-> nside, ipix |-> ipix], "rad")),
      Some(Quantity([axis |-> "lat", nside |-> nside, ipix |-> ipix], "rad"))>>

\* self.hp.lonlat_to_healpix(lon, lat) at the store's nside, nested order:
\* the centre of a pixel of a finer or equal nested grid lies in the pixel
\* that is its ancestor at the store's resolution.
lonlat_to_healpix(lon, lat) ==
    lon.value.ipix \div ((lon.value.nside \div healpix_nside)
                          * (lon.value.nside \div healpix_nside))

\* LigoProcessor.__init__ (decode_message and parse_notice) on a record
LigoProcessor(record) ==
    LET init == [index |-> None, position |-> <<None, None>>,
                 position_err |-> <<None, None>>, time |-> None,
                 distance |-> <<None, None>>, terrestrial_chance |-> None,
                 false_alarm_rate |-> None, has_neutron_star |-> None,
                 has_remnant |-> None, skymap |-> None]
                    @@ JsonProcessor("igwn.gwalert")
        ident == [index |-> Some(record.superevent_id),
                  alert_type |-> Some(record.alert_type)] @@ init
        event == record.event[1]
        li == uniq_to_level_ipix(event.uniq)
    IN  IF record.alert_type = "RETRACTION" THEN ident
        ELSE IF event.group # "CBC" THEN ident
        ELSE [time |-> Some(event.time),
              skymap |-> event.skymap,
              position |-> healpix_to_lonlat(li[2], level_to_nside(li[1])),
              distance |-> <<Some(event.distmean),
                             Some(event.diststd)>>,
              terrestrial_chance |-> Some(event.terrestrial),
              false_alarm_rate |-> Some(event.far),
              has_neutron_star |-> Some(event.hasns),
              has_remnant |-> Some(event.hasremnant)] @@ ident

----------------------------------------------------------------------------
\* The store (src/src/lo2t/db.py).

Columns ==
    {"id", "topic", "alert_type", "time_utc", "time_created",
     "time_modified", "ra", "ra_err", "ra_unit", "dec", "dec_err",
     "dec_unit", "healpix_index", "terrestrial_chance", "false_alarm_rate",
     "has_neutron_star", "has_remnant", "data"}

\* INSERT INTO events (id) VALUES (?): every other column is NULL
NewRow(index) == [c \in Columns |-> IF c = "id" THEN index ELSE NULL]

\* the SQL comparison a = b, which no NULL satisfies
SqlEq(a, b) == a # NULL /\ b # NULL /\ a = b

\* UPDATE events SET column = data WHERE id = index
Update(tbl, column, data, index) ==
    [i \in DOMAIN tbl |->
        IF SqlEq(tbl[i].id, index)
        THEN [tbl[i] EXCEPT ![column] = data]
        ELSE tbl[i]]

\* SELECT * FROM events WHERE id = ?  (the matching rows, in rowid order)
SelectById(tbl, index) ==
    SelectSeq(tbl, LAMBDA r : SqlEq(r.id, index))

\* cur.fetchone(): the first row of the result, or None
fetchone(rows) == IF rows = <<>> THEN None ELSE Some(rows[1])

get_index(event) == event.index

get_event(tbl, event_id) == fetchone(SelectById(tbl, event_id))

\* commit that commits without stamping time_modified
commit_without_stamp(tbl, index, t) == tbl

\* commit that stamps time_created along with time_modified
commit_stamps_created(tbl, index, t) ==
    IF index = None THEN tbl
    ELSE Update(Update(tbl, "time_modified", Some(strftime_now(t)), index),
                "time_created", Some(strftime_now(t)), index)

\* Lo2tDb.commit(index): stamps time_modified unless index is None
commit(tbl, index, t) ==
    IF index = None THEN tbl
    ELSE Update(tbl, "time_modified", Some(strftime_now(t)), index)

\* Lo2tDb.store_data with commit=True
store_data(tbl, data, index, column, t) ==
    commit(Update(tbl, column, data, index), index, t)

\* INSERT INTO events (id) VALUES (?): id is the PRIMARY KEY, so a value
\* that is stored already is refused; sqlite lets NULL in any number of times
Insert(tbl, index) ==
    IF SelectById(tbl, index) # <<>>
    THEN [table |-> tbl, result |-> Raised("IntegrityError")]
    ELSE [table |-> Append(tbl, NewRow(index)), result |-> Return(0)]

\* Lo2tDb.create_event: the table it leaves and how it ends
create_event(tbl, event, t) ==
    IF "index" \notin DOMAIN event THEN [table |-> tbl, result |-> Return(-1)]
    ELSE IF "topic" \notin DOMAIN event
    THEN [table |-> tbl, result |-> Return(-1)]
    ELSE LET index == get_index(event)
             ins == Insert(tbl, index)
             t2 == Update(ins.table, "topic", event.topic, index)
             t3 == Update(t2, "time_created", Some(strftime_now(t)), index)
         IN  IF ins.result.raised # "" THEN ins
             ELSE [table |-> commit(t3, index, t), result |-> Return(0)]

set_alert_type(tbl, event, t) ==
    IF "alert_type" \notin DOMAIN event THEN tbl
    ELSE store_data(tbl, event.alert_type, get_index(event), "alert_type", t)

\* set_time that leaves the stored time when the event has none
set_time_keeps_stored(tbl, event, t) ==
    IF "time" \notin DOMAIN event THEN tbl
    ELSE IF event.time = None THEN tbl
    ELSE store_data(tbl, Some(adapt_datetime_iso(event.time[1])),
                    get_index(event), "time_utc", t)

\* the datetime goes through the registered adapter, None is stored as NULL
set_time(tbl, event, t) ==
    IF "time" \notin DOMAIN event THEN tbl
    ELSE store_data(tbl,
                    IF event.time = None THEN NULL
                    ELSE Some(adapt_datetime_iso(event.time[1])),
                    get_index(event), "time_utc", t)

\* set_position that writes an empty position as NULLs
set_position_writes_none(tbl, event, t) ==
    LET ra == event.position[1]
        dec == event.position[2]
        index == get_index(event)
    IN  commit(
            Update(Update(Update(Update(tbl,
                "ra", IF ra = None THEN NULL ELSE Some(ra[1].value), index),
                "ra_unit", IF ra = None THEN NULL ELSE Some(ra[1].unit), index),
                "dec", IF dec = None THEN NULL ELSE Some(dec[1].value), index),
                "dec_unit", IF dec = None THEN NULL ELSE Some(dec[1].unit),
                index),
            index, t)

\* a coordinate that is None has no unit: the position is not written
set_position(tbl, event, t) ==
    IF "position" \notin DOMAIN event THEN tbl
    ELSE LET ra == event.position[1]
             dec == event.position[2]
             index == get_index(event)
         IN  IF ra = None \/ dec = None THEN tbl
             ELSE commit(
                    Update(Update(Update(Update(tbl,
                        "ra", Some(ra[1].value), index),
                        "ra_unit", Some(ra[1].unit), index),
                        "dec", Some(dec[1].value), index),
                        "dec_unit", Some(dec[1].unit), index),
                    index, t)

\* a None error has no .value and is stored as it is
set_position_error(tbl, event, t) ==
    IF "position_err" \notin DOMAIN event THEN tbl
    ELSE LET index == get_index(event)
         IN  commit(
                Update(Update(tbl,
                    "ra_err", event.position_err[1], index),
                    "dec_err", event.position_err[2], index),
                index, t)

\* set_healpix_index that computes the index only for a row that has none
set_healpix_index_once(tbl, event, t) ==
    LET index == get_index(event)
        row == get_event(tbl, index)
    IN  IF event.position[1] = None \/ event.position[2] = None THEN tbl
        ELSE IF row # None /\ row[1].healpix_index # NULL THEN tbl
        ELSE store_data(tbl,
                        Some(lonlat_to_healpix(event.position[1][1],
                                               event.position[2][1])),
                        index, "healpix_index", t)

\* An index the event carries is stored as it is.  int(None) raises
\* TypeError, and the index is then computed from the position; a position
\* of None makes lonlat_to_healpix raise AttributeError.
set_healpix_index(tbl, event, t) ==
    LET index == get_index(event)
    IN  IF "healpix_index" \in DOMAIN event /\ event.healpix_index # None
        THEN store_data(tbl, event.healpix_index, index, "healpix_index", t)
        ELSE IF "position" \notin DOMAIN event THEN tbl
        ELSE IF event.position[1] = None \/ event.position[2] = None THEN tbl
        ELSE store_data(tbl,
                        Some(lonlat_to_healpix(event.position[1][1],
                                               event.position[2][1])),
                        index, "healpix_index", t)

\* the setters that hand one attribute to store_data
set_attribute(tbl, event, attr, column, t) ==
    IF attr \notin DOMAIN event THEN tbl
    ELSE store_data(tbl, event[attr], get_index(event), column, t)

set_skymap(tbl, event, t) == set_attribute(tbl, event, "skymap", "data", t)

set_terrestrial_chance(tbl, event, t) ==
    set_attribute(tbl, event, "terrestrial_chance", "terrestrial_chance", t)

set_false_alarm_rate(tbl, event, t) ==
    set_attribute(tbl, event, "false_alarm_rate", "false_alarm_rate", t)

set_has_neutron_star(tbl, event, t) ==
    set_attribute(tbl, event, "has_neutron_star", "has_neutron_star", t)

set_has_remnant(tbl, event, t) ==
    set_attribute(tbl, event, "has_remnant", "has_remnant", t)

\* the setters add_event calls, in its order, all at clock reading t
set_all(tbl, event, t) ==
    LET s1 == set_alert_type(tbl, event, t)
        s2 == set_time(s1, event, t)
        s3 == set_position(s2, event, t)
        s4 == set_position_error(s3, event, t)
        s5 == set_healpix_index(s4, event, t)
        s6 == set_skymap(s5, event, t)
        s7 == set_terrestrial_chance(s6, event, t)
        s8 == set_false_alarm_rate(s7, event, t)
        s9 == set_has_neutron_star(s8, event, t)
    IN  set_has_remnant(s9, event, t)

\* the n-th setter add_event calls
Setter(n, tbl, event, t) ==
    CASE n = 1 -> set_alert_type(tbl, event, t)
      [] n = 2 -> set_time(tbl, event, t)
      [] n = 3 -> set_position(tbl, event, t)
      [] n = 4 -> set_position_error(tbl, event, t)
      [] n = 5 -> set_healpix_index(tbl, event, t)
      [] n = 6 -> set_skymap(tbl, event, t)
      [] n = 7 -> set_terrestrial_chance(tbl, event, t)
      [] n = 8 -> set_false_alarm_rate(tbl, event, t)
      [] n = 9 -> set_has_neutron_star(tbl, event, t)
      [] OTHER -> set_has_remnant(tbl, event, t)

\* the table after the first k setters of add_event, each of which commits
RECURSIVE set_first(_, _, _, _)
set_first(tbl, event, t, k) ==
    IF k = 0 THEN tbl
    ELSE Setter(k, set_first(tbl, event, t, k - 1), event, t)

\* add_event in which sqlite raises OperationalError (disk full, database
\* locked) in the statement of setter k + 1: what the earlier statements
\* committed stays
add_event_interrupted(tbl, event, t0, t1, k) ==
    LET c == IF SelectById(tbl, get_index(event)) # <<>>
             THEN [table |-> tbl, result |-> Return(0)]
             ELSE create_event(tbl, event, t0)
    IN  IF c.result.raised # "" THEN c
        ELSE [table |-> set_first(c.table, event, t1, k),
              result |-> Raised("OperationalError")]

\* add_event without the lookup of the id: every call inserts
add_event_without_lookup(tbl, event, t0, t1) ==
    LET c == create_event(tbl, event, t0)
    IN  IF c.result.raised # "" THEN c
        ELSE [table |-> set_all(c.table, event, t1), result |-> Return(0)]

\* Lo2tDb.add_event: the table it leaves and how it ends.  The call starts
\* at clock reading t0 and its setters run at t1 >= t0.
add_event(tbl, event, t0, t1) ==
    LET c == IF SelectById(tbl, get_index(event)) # <<>>
             THEN [table |-> tbl, result |-> Return(0)]
             ELSE create_event(tbl, event, t0)
    IN  IF c.result.raised # "" THEN c
        ELSE [table |-> set_all(c.table, event, t1), result |-> Return(0)]

\* is_duplicate that looks for any row instead of the row with the id
is_duplicate_any_row(tbl, event) == Return(tbl # <<>>)

\* bool(row): a fetched row is a non-empty tuple
is_duplicate(tbl, event) == Return(get_event(tbl, event.index) # None)

\* A tolerance is an astropy Quantity (the default, 10 * u.minute) or a
\* datetime.timedelta, counted in half seconds.
QuantityMinutes(n) == [type |-> "Quantity", value |-> n]

timedelta(halves) == [type |-> "timedelta", value |-> halves]

\* Lo2tDb.is_near_in_time: what the call returns.  A datetime minus a
\* Quantity, or None minus anything, raises; a timedelta gives the two
\* datetimes that are adapted to TEXT and compared with BETWEEN.
is_near_in_time(tbl, event, tolerance_time) ==
    IF event.time = None THEN Raised("TypeError")
    ELSE IF tolerance_time.type = "Quantity" THEN Raised("TypeError")
    ELSE LET lo == adapt_datetime_iso(event.time[1] - tolerance_time.value)
             hi == adapt_datetime_iso(event.time[1] + tolerance_time.value)
         IN  Return(SelectSeq(tbl, LAMBDA r :
                /\ r.time_utc # NULL
                /\ TextLeq(lo, r.time_utc[1])
                /\ TextLeq(r.time_utc[1], hi)))

\* Lo2tDb.is_near_in_position: what the call returns.  ah.neighbours makes
\* an int64 array of event.healpix_index, which raises TypeError for None;
\* for an integer it returns a numpy array of the eight neighbours, and
\* numpy arrays have no append method, so that the SELECT is never reached.
is_near_in_position(tbl, event) ==
    IF "healpix_index" \notin DOMAIN event THEN Raised("AttributeError")
    ELSE IF event.healpix_index = None THEN Raised("TypeError")
    ELSE Raised("AttributeError")

\* Lo2tDb.cleanup_old_events: datetime.datetime.now() * u.s raises
\* TypeError before the DELETE statement is reached
cleanup_old_events(tbl, tolerance_time, t) ==
    [table |-> tbl, result |-> Raised("TypeError")]

\* Lo2tDb.store_setting: OR IGNORE when overwrite is set, OR REPLACE when not
store_setting(tab, name, value, overwrite) ==
    IF overwrite /\ name \in DOMAIN tab THEN tab
    ELSE [n \in DOMAIN tab \cup {name} |-> IF n = name THEN value ELSE tab[n]]

\* the values the configuration file gives
config == [healpix_nside |-> healpix_nside, timezone_utc_offset |-> 1]

\* CREATE TABLE after dropping the table that is there
create_table_afresh(tbl) == <<>>

\* CREATE TABLE IF NOT EXISTS events: an existing table keeps its rows
create_table_if_not_exists(tbl) == tbl

\* the columns of the CREATE TABLE statement for triggers
TriggerColumns ==
    {"id", "event_id", "ra", "ra_unit", "dec", "dec_unit", "exposure_time",
     "calibrator_id", "calibrator_ra", "calibrator_ra_unit",
     "calibrator_dec", "calibrator_dec_unit", "calibrator_exposure_time"}

\* self.event_table and self.trigger_table: both are config's db_table
db_table == "events"

event_table == db_table

trigger_table == db_table

\* CREATE TABLE IF NOT EXISTS name (columns) on the tables of the file
create_if_not_exists(tables, name, columns) ==
    IF name \in DOMAIN tables THEN tables
    ELSE (name :> columns) @@ tables

\* the three CREATE TABLE IF NOT EXISTS statements of Lo2tDb.__init__
create_tables(tables) ==
    LET t1 == create_if_not_exists(tables, "settings", {"name", "value"})
        t2 == create_if_not_exists(t1, event_table, Columns)
    IN  create_if_not_exists(t2, trigger_table, TriggerColumns)

\* a startup that records the time of every start as start_time
init_settings_restamping(tab, t) ==
    LET s1 == store_setting(tab, "healpix_nside", config.healpix_nside, FALSE)
        s2 == store_setting(s1, "timezone_utc_offset",
                            config.timezone_utc_offset, FALSE)
    IN  store_setting(s2, "start_time", t, FALSE)

\* Lo2tDb.__init__ on a settings table: the settings it leaves
init_settings(tab, t) ==
    LET s1 == store_setting(tab, "healpix_nside", config.healpix_nside, FALSE)
        s2 == store_setting(s1, "timezone_utc_offset",
                            config.timezone_utc_offset, FALSE)
    IN  IF "start_time" \in DOMAIN s2 THEN s2
        ELSE store_setting(s2, "start_time", t, FALSE)

----------------------------------------------------------------------------
\* The ingestion loop (src/src/lo2t/receiver.py, class GcnNotices).
\*
\* A message of the transport consumer is a record of what topic(), error()
\* and value() return.  The value is described by its encoding ("json",
\* "xml", or "garbage" for bytes that are neither), and for JSON by its
\* alert_datetime and superevent_id keys, None when the key is missing.

\* config["gcn"]["subscriptions"], with the message_type of each
notice_type == ("igwn.gwalert" :> "json") @@ ("swift" :> "voevent")

subscriptions == DOMAIN notice_type

\* json.loads(value)
json_loads(value) ==
    IF value.encoding = "json" THEN Return(value)
    ELSE Raised("JSONDecodeError")

\* GcnNotices.extract_time: the parsed alert_datetime
extract_time(message) ==
    IF json_loads(message.value).raised # "" THEN json_loads(message.value)
    ELSE IF message.value.alert_datetime = None THEN Raised("KeyError")
    ELSE Return(message.value.alert_datetime[1])

\* the file written for a topic and a notice time
Filename(topic, notice_time) ==
    [topic |-> topic, time |-> notice_time,
     ext |-> IF notice_type[topic] = "json" THEN ".json" ELSE ".voevent"]

\* open(filename, "w"): the file exists and is empty
Truncate(dir, name) ==
    {f \in dir : f.name # name} \cup {[name |-> name, content |-> None]}

\* the file holds the message's value
Write(dir, name, value) ==
    {f \in dir : f.name # name} \cup {[name |-> name, content |-> Some(value)]}

\* GcnNotices.save_message.  A json notice is parsed again after the file
\* has been opened for writing; a voevent notice is written as it is.
save_message(dir, message, notice_time) ==
    LET name == Filename(message.topic, notice_time)
    IN  IF notice_type[message.topic] = "json"
        THEN IF json_loads(message.value).raised # ""
             THEN [notices |-> Truncate(dir, name),
                   logged |-> <<>>, raised |-> "JSONDecodeError"]
             ELSE [notices |-> Write(dir, name, message.value),
                   logged |-> <<"INFO Saved message to file">>,
                   raised |-> ""]
        ELSE [notices |-> Write(dir, name, message.value),
              logged |-> <<"INFO Saved message to file">>, raised |-> ""]

\* The call's outcome: the counters and the directory after it, the log
\* records it made, and the exception it raised ("" for none).
Outcome(counter, dir, logged, raised) ==
    [notice_counter |-> counter, notices |-> dir, logged |-> logged,
     raised |-> raised]

\* the lines of parse_message inside the limit check: notice time, save
parse_message_within_limit(counter, dir, message, t) ==
    LET type == notice_type[message.topic]
        xt == extract_time(message)
    IN  IF type = "json" /\ xt.raised = "JSONDecodeError"
        THEN Outcome(counter, dir, <<"INFO Received message">>,
                     "JSONDecodeError")
        ELSE LET notice_time == IF type = "json" /\ xt.raised = ""
                                THEN xt.value ELSE t
                 early == IF type = "voevent"
                          THEN <<"INFO Received message",
                                 "INFO not a json message">>
                          ELSE IF xt.raised = "KeyError"
                               THEN <<"INFO Received message",
                                      "ERROR No alert_datetime key">>
                               ELSE <<"INFO Received message">>
                 sm == save_message(dir, message, notice_time)
             IN  Outcome(counter, sm.notices,
                         early \o <<"INFO Received notice">> \o sm.logged,
                         sm.raised)

\* parse_message that saves every message, whatever the limit
parse_message_unlimited(counter, limit, dir, message, t) ==
    IF message.topic \notin DOMAIN counter
    THEN Outcome(counter, dir, <<>>, "KeyError")
    ELSE parse_message_within_limit(
            [counter EXCEPT ![message.topic] = @ + 1], dir, message, t)

\* GcnNotices.parse_message.  The counter of a topic that was not
\* subscribed to does not exist, and reading it raises KeyError.
parse_message(counter, limit, dir, message, t) ==
    IF message.topic \notin DOMAIN counter
    THEN Outcome(counter, dir, <<>>, "KeyError")
    ELSE LET c == [counter EXCEPT ![message.topic] = @ + 1]
         IN  IF \/ limit[message.topic] > c[message.topic]
                \/ limit[message.topic] < 0
             THEN parse_message_within_limit(c, dir, message, t)
             ELSE IF c[message.topic] = limit[message.topic]
                  THEN Outcome(c, dir, <<"INFO stopping listening">>, "")
                  ELSE Outcome(c, dir, <<>>, "")

\* a for loop body that hands every message to parse_message
for_body_ignoring_error(counter, limit, dir, message, t) ==
    parse_message(counter, limit, dir, message, t)

\* whether the call wrote the message to its file
Saved(outcome) ==
    \E k \in 1..Len(outcome.logged) :
        outcome.logged[k] = "INFO Saved message to file"

\* the body of listen's for loop: a message with an error is logged and
\* passed over
for_body(counter, limit, dir, message, t) ==
    IF message.error # None
    THEN Outcome(counter, dir, <<"ERROR message.error()">>, "")
    ELSE parse_message(counter, limit, dir, message, t)

\* a for loop that drops what follows the first message of the batch
for_next_first_only(messages) ==
    [message |-> Head(messages), rest |-> <<>>]

\* the for loop takes the messages of the batch in the order of the list
for_next(messages) ==
    [message |-> Head(messages), rest |-> Tail(messages)]

\* a while condition without the clause for a negative timeout
while_condition_by_time_only(t, time_start, timeout_) ==
    t < time_start + timeout_

\* a while condition that never ends the loop
while_condition_forever(t, time_start, timeout_) == TRUE

\* the condition of listen's while loop
while_condition(t, time_start, timeout_) ==
    t < time_start + timeout_ \/ timeout_ < 0

----------------------------------------------------------------------------
\* The decoder registry (src/src/lo2t/decode/base.py).

\* The processor classes and their provided_formats.  ReplacementProcessor
\* stands for a class of the caller's that lists keys of two of the
\* package's classes and one of its own twice.
provided_formats ==
    [LigoProcessor |-> <<"igwn.gwalert">>,
     IcecubeProcessor |-> <<"icecube">>,
     EinsteinprobeProcessor |-> <<"gcn.notices.einstein_probe.wxt.alert">>,
     SvomProcessor |-> <<"svom">>,
     SwiftProcessor |-> <<"swift">>,
     ReplacementProcessor |-> <<"igwn.gwalert", "swift", "mock", "mock">>]

\* the loop of add_gcn_processor over the class's formats
RECURSIVE add_formats(_, _, _)
add_formats(registry, formats, processor_class) ==
    IF formats = <<>> THEN registry
    ELSE add_formats((Head(formats) :> processor_class) @@ registry,
                     Tail(formats), processor_class)

\* a registration that leaves the entry of a registered key as it is
add_gcn_processor_keeping_first(registry, processor_class) ==
    registry @@ add_formats(<<>>, provided_formats[processor_class],
                            processor_class)

\* add_gcn_processor(processor_class), called by GcnNoticeProcessor.register
add_gcn_processor(registry, processor_class) ==
    add_formats(registry, provided_formats[processor_class], processor_class)

\* a lookup that falls back to the JSON base class for an unknown key
get_processor_factory_with_default(registry, message_format) ==
    IF message_format \notin DOMAIN registry THEN Return("JsonProcessor")
    ELSE Return(registry[message_format])

\* _get_processor_factory(message_format) for a string
get_processor_factory(registry, message_format) ==
    IF message_format \notin DOMAIN registry THEN Raised("ValueError")
    ELSE Return(registry[message_format])

\* The decoding path.  A notice is a message with its topic and a value
\* that is a JSON document (encoding "json", with the parsed record: a
\* function from the keys the document has) or not.  A call returns the
\* processor object, which is the Event, or raises.

\* JsonProcessor.decode_message: topic and record are set on the object
decode_message(self, notice) ==
    IF notice.value.encoding # "json" THEN Raised("JSONDecodeError")
    ELSE Return([topic |-> Some(notice.topic)] @@ self)

\* base64.b64decode(s): the bytes of a string; None raises TypeError
b64decode(s) ==
    IF s = None THEN Raised("TypeError") ELSE Return(s)

\* LigoProcessor.extract_skymap: a record without "event", or an event
\* without "skymap", raises KeyError; an event of null raises TypeError,
\* which is caught.  b64decode is called outside the try statement.
extract_skymap(self, record) ==
    IF "event" \notin DOMAIN record THEN Raised("KeyError")
    ELSE IF record.event = None THEN Return(self)
    ELSE IF "skymap" \notin DOMAIN record.event[1] THEN Raised("KeyError")
    ELSE IF b64decode(record.event[1].skymap).raised # ""
         THEN b64decode(record.event[1].skymap)
    ELSE Return([skymap |-> b64decode(record.event[1].skymap).value]
                    @@ self)

\* the attributes parse_notice reads from the sky table and the record once
\* self.skymap is set
parse_skymap(self, event) ==
    LET li == uniq_to_level_ipix(event.uniq)
        located == [position |->
                        healpix_to_lonlat(li[2], level_to_nside(li[1])),
                    distance |->
                        IF {"distmean", "diststd"} \subseteq DOMAIN event
                        THEN <<Some(event.distmean), Some(event.diststd)>>
                        ELSE self.distance] @@ self
    IN  IF {"terrestrial", "far", "hasns", "hasremnant"}
                \subseteq DOMAIN event
        THEN Return([terrestrial_chance |-> Some(event.terrestrial),
                     false_alarm_rate |-> Some(event.far),
                     has_neutron_star |-> Some(event.hasns),
                     has_remnant |-> Some(event.hasremnant)] @@ located)
        ELSE Raised("KeyError")

\* LigoProcessor.parse_notice on the object and its record
parse_notice(self, record) ==
    IF ~({"superevent_id", "alert_type"} \subseteq DOMAIN record)
    THEN Raised("KeyError")
    ELSE LET ident == [index |-> Some(record.superevent_id),
                       alert_type |-> Some(record.alert_type)] @@ self
         IN  IF record.alert_type = "RETRACTION" THEN Return(ident)
             ELSE IF "event" \notin DOMAIN record THEN Raised("KeyError")
             ELSE IF record.event = None THEN Raised("TypeError")
             ELSE IF "group" \notin DOMAIN record.event[1]
                  THEN Raised("KeyError")
             ELSE IF record.event[1].group # "CBC" THEN Return(ident)
             ELSE IF "time" \notin DOMAIN record.event[1]
                  THEN Raised("KeyError")
             ELSE LET timed == [time |-> Some(record.event[1].time)]
                                    @@ ident
                      mapped == extract_skymap(timed, record)
                  IN  IF mapped.raised # "" THEN mapped
                      ELSE IF mapped.value.skymap = None THEN mapped
                      ELSE parse_skymap(mapped.value, record.event[1])

\* LigoProcessor.__init__: the attributes are set to their defaults, then
\* decode_message and parse_notice are called
LigoProcessor_init(notice) ==
    LET init == [index |-> None, position |-> <<None, None>>,
                 position_err |-> <<None, None>>, time |-> None,
                 distance |-> <<None, None>>, terrestrial_chance |-> None,
                 false_alarm_rate |-> None, has_neutron_star |-> None,
                 has_remnant |-> None, skymap |-> None]
                    @@ GcnNoticeProcessor
        loaded == decode_message(init, notice)
    IN  IF loaded.raised # "" THEN loaded
        ELSE parse_notice(loaded.value, notice.value.record)

\* LigoProcessor.process: decode_message, then extract_skymap
LigoProcessor_process(self, notice) ==
    LET loaded == decode_message(self, notice)
    IN  IF loaded.raised # "" THEN loaded
        ELSE extract_skymap(loaded.value, notice.value.record)

\* JsonProcessor.__init__, for the classes that do not override it
JsonProcessor_init == [skymap |-> None] @@ GcnNoticeProcessor

\* process_gcn_notice(message): the factory of the topic makes the notice,
\* then process() and parse_notice() are called on it.  The JSON classes
\* other than LigoProcessor inherit a parse_notice that does nothing.
\* SwiftProcessor.process hands the message object to etree.parse, which
\* raises TypeError, and the class has no parse_notice.
process_gcn_notice(registry, notice) ==
    LET factory == get_processor_factory(registry, notice.topic)
    IN  IF factory.raised # "" THEN factory
        ELSE IF factory.value = "LigoProcessor"
        THEN LET made == LigoProcessor_init(notice)
                 processed == LigoProcessor_process(made.value, notice)
             IN  IF made.raised # "" THEN made
                 ELSE IF processed.raised # "" THEN processed
                 ELSE parse_notice(processed.value, notice.value.record)
        ELSE IF factory.value = "SwiftProcessor" THEN Raised("TypeError")
        ELSE decode_message(JsonProcessor_init, notice)

\* the register() calls of decode/__init__.py, in their order
decode_init ==
    <<"LigoProcessor", "IcecubeProcessor", "EinsteinprobeProcessor",
      "SvomProcessor", "SwiftProcessor">>

\* the registry after the calls in the sequence, starting from the empty one
RECURSIVE registered_after(_)
registered_after(calls) ==
    IF calls = <<>> THEN <<>>
    ELSE add_gcn_processor(registered_after(SubSeq(calls, 1, Len(calls) - 1)),
                           calls[Len(calls)])

----------------------------------------------------------------------------
\* The calls the model makes.

Ids == {"S1", "S2"}

\* An event sub-record with its sky table: the time in half seconds, and the
\* UNIQ of the most probable pixel.
SkyEvent(time, uniq) ==
    [group |-> "CBC", time |-> time, uniq |-> uniq, skymap |-> Some(uniq),
     distmean |-> 100, diststd |-> 10, terrestrial |-> 1, far |-> 2,
     hasns |-> 1, hasremnant |-> 0]

\* 1.0 s at pixel 0 of level 2 (UNIQ 64), 2.5 s at pixel 5 of level 1
\* (UNIQ 21)
SkyEvents == {SkyEvent(2, 64), SkyEvent(5, 21)}

\* the gravitational-wave records fed to the decoder
LigoRecords ==
    {[superevent_id |-> i, alert_type |-> "PRELIMINARY", event |-> Some(e)] :
        i \in Ids, e \in SkyEvents}
    \cup {[superevent_id |-> i, alert_type |-> "RETRACTION",
           event |-> None] : i \in Ids}
    \cup {[superevent_id |-> "S1", alert_type |-> "INITIAL",
           event |-> Some([SkyEvent(2, 64) EXCEPT !.group = "Burst"])]}

\* the events the decoders hand over
EventInputs ==
    {LigoProcessor(r) : r \in LigoRecords}
    \cup {JsonProcessor("icecube"), VoeventProcessor}

\* one event per id, and one without: what is_duplicate is asked with
DuplicateQueries ==
    {LigoProcessor([superevent_id |-> i, alert_type |-> "RETRACTION",
                    event |-> None]) : i \in Ids}
    \cup {JsonProcessor("icecube")}

\* A query event at 1.5 s, between the two stored times, with the default
\* tolerance and with tolerances of one and two half seconds; and a query
\* event without a time.
TimeQueries ==
    {<<LigoProcessor([superevent_id |-> "S1", alert_type |-> "PRELIMINARY",
                      event |-> Some(SkyEvent(3, 64))]), w>> :
        w \in {QuantityMinutes(10), timedelta(1), timedelta(2)}}
    \cup {<<JsonProcessor("icecube"), timedelta(1)>>}

\* What is_near_in_position is asked with: the decoded event of a stored
\* position (decoders leave healpix_index None), the same event after the
\* caller has set healpix_index to the bucket of its position, and an event
\* without a position.
PositionQueries ==
    LET e == LigoProcessor([superevent_id |-> "S2",
                            alert_type |-> "PRELIMINARY",
                            event |-> Some(SkyEvent(3, 64))])
    IN  {e,
         [e EXCEPT !.healpix_index =
            Some(lonlat_to_healpix(e.position[1][1], e.position[2][1]))],
         JsonProcessor("icecube")}

\* the clock reading at which the store is first opened: 3.0 s, after the
\* times of the events
StartClock == 2 * 3

NoCall == [op |-> "init"]

\* what value() returns: a gravitational-wave notice, a JSON document
\* without alert_datetime, bytes that are not JSON, and a VOEvent document
JsonValue == [encoding |-> "json", alert_datetime |-> Some(0),
              superevent_id |-> Some("S1")]

JsonValues ==
    {JsonValue, [JsonValue EXCEPT !.alert_datetime = None],
     [encoding |-> "garbage", alert_datetime |-> None,
      superevent_id |-> None]}

XmlValue == [encoding |-> "xml", alert_datetime |-> None,
             superevent_id |-> None]

\* The messages the consumer yields: the three values on the json topic,
\* one of them also with an error; a VOEvent on the voevent topic; and a
\* notice of a topic that is not subscribed to.
Messages ==
    {[topic |-> "igwn.gwalert", error |-> None, value |-> v] :
        v \in JsonValues}
    \cup {[topic |-> "igwn.gwalert", error |-> Some("KafkaError"),
            value |-> JsonValue]}
    \cup {[topic |-> "swift", error |-> None, value |-> XmlValue]}
    \cup {[topic |-> "gcn.notices.unregistered", error |-> None,
            value |-> JsonValue]}

\* the lists consume() returns, the empty one when the poll times out
Batches == UNION {[1..n -> Messages] : n \in 0..MaxBatch}

\* the limits of config: two notices of the json topic and no limit on the
\* voevent topic, or none of the json topic and one of the voevent topic
LimitConfigs ==
    {("igwn.gwalert" :> 2) @@ ("swift" :> (0 - 1)),
     ("igwn.gwalert" :> 0) @@ ("swift" :> 1)}

\* the timeouts listen is called with, in seconds
Timeouts == {0 - 1, 0, 1}

NoMessage == [op |-> "none"]

\* Lo2tDb(config) on a new database file
StoreOpened ==
    /\ schema = create_tables(<<>>)
    /\ events = create_table_if_not_exists(<<>>)
    /\ settings = init_settings(<<>>, StartClock)
    /\ now = StartClock
    /\ nAdds = 0
    /\ last = NoCall

\* GcnNotices(configfile): load_config sets a counter of 0 and the limit
\* for every subscription; listen has not been called
NoticesConstructed(limit) ==
    /\ notice_limit = limit
    /\ notice_counter = [topic \in subscriptions |-> 0]
    /\ notices = {}
    /\ pc = "idle"
    /\ timeout = 0
    /\ elapsed = 0
    /\ polls = 0
    /\ batch = <<>>
    /\ handled = NoMessage
    /\ persisted = [topic \in subscriptions |-> 0]

\* lo2t.decode has been imported
DecodeImported ==
    /\ registered_gcn_processors = registered_after(decode_init)
    /\ registrations = decode_init
    /\ resolved = NoCall
    /\ decoded = NoCall

Init ==
    /\ StoreOpened
    /\ NoticesConstructed(("igwn.gwalert" :> 2) @@ ("swift" :> (0 - 1)))
    /\ DecodeImported

\* db.add_event(event): d0 passes before the call, d1 during it
AddEvent(event, d0, d1) ==
    /\ nAdds < MaxAdds
    /\ now + d0 + d1 <= StartClock + MaxClock
    /\ events' = add_event(events, event, now + d0, now + d0 + d1).table
    /\ now' = now + d0 + d1
    /\ nAdds' = nAdds + 1
    /\ last' = [op |-> "add_event", event |-> event,
                existed |-> is_duplicate(events, event).value,
                result |->
                    add_event(events, event, now + d0, now + d0 + d1).result]
    /\ UNCHANGED <<settings, schema>>

\* db.cleanup_old_events(tolerance_time)
CleanupOldEvents(tolerance_time) ==
    /\ events' = cleanup_old_events(events, tolerance_time, now).table
    /\ last' = [op |-> "cleanup_old_events", tolerance |-> tolerance_time,
                result |->
                    cleanup_old_events(events, tolerance_time, now).result]
    /\ UNCHANGED <<settings, now, nAdds, schema>>

\* db.is_duplicate(event)
IsDuplicate(event) ==
    /\ last' = [op |-> "is_duplicate", event |-> event,
                result |-> is_duplicate(events, event)]
    /\ UNCHANGED <<events, settings, now, nAdds, schema>>

\* db.is_near_in_time(event, tolerance_time)
IsNearInTime(event, tolerance_time) ==
    /\ last' = [op |-> "is_near_in_time", event |-> event,
                tolerance |-> tolerance_time,
                result |-> is_near_in_time(events, event, tolerance_time)]
    /\ UNCHANGED <<events, settings, now, nAdds, schema>>

\* db.is_near_in_position(event)
IsNearInPosition(event) ==
    /\ last' = [op |-> "is_near_in_position", event |-> event,
                result |-> is_near_in_position(events, event)]
    /\ UNCHANGED <<events, settings, now, nAdds, schema>>

\* db.store_setting(name, value, overwrite)
StoreSetting(name, value, overwrite) ==
    /\ settings' = store_setting(settings, name, value, overwrite)
    /\ last' = [op |-> "store_setting", name |-> name, value |-> value,
                overwrite |-> overwrite]
    /\ UNCHANGED <<events, now, nAdds, schema>>

\* Lo2tDb(config) on the existing database file
Startup ==
    /\ schema' = create_tables(schema)
    /\ events' = create_table_if_not_exists(events)
    /\ settings' = init_settings(settings, now)
    /\ last' = [op |-> "startup"]
    /\ UNCHANGED <<now, nAdds>>

\* the calls on the store, made by a process that does not run listen
Next ==
  /\ UNCHANGED <<listenVars, registryVars, decodeVars>>
  /\
    \/ \E event \in EventInputs, d0 \in 0..1, d1 \in 0..1 :
            AddEvent(event, d0, d1)
    \/ \E m \in {0, 60} : CleanupOldEvents(QuantityMinutes(m))
    \/ \E event \in DuplicateQueries : IsDuplicate(event)
    \/ \E q \in TimeQueries : IsNearInTime(q[1], q[2])
    \/ \E event \in PositionQueries : IsNearInPosition(event)
    \/ \E overwrite \in BOOLEAN :
            StoreSetting("timezone_utc_offset", 2, overwrite)
    \/ Startup

Spec == Init /\ [][Next]_vars

----------------------------------------------------------------------------
\* The receiver process: GcnNotices(configfile), connect(), listen(timeout).

ListenInit ==
    /\ StoreOpened
    /\ \E limit \in LimitConfigs : NoticesConstructed(limit)
    /\ DecodeImported

\* notices.listen(timeout=t): time_start is read
Listen(t) ==
    /\ pc = "idle"
    /\ timeout' = t
    /\ elapsed' = 0
    /\ pc' = "while"
    /\ UNCHANGED <<notice_limit, notice_counter, notices, polls, batch,
                   handled, persisted>>

\* the while condition is evaluated: listen polls again or returns
While ==
    /\ pc = "while"
    /\ pc' = IF while_condition(elapsed, 0, timeout) THEN "consume"
             ELSE "returned"
    /\ UNCHANGED <<notice_limit, notice_counter, notices, timeout, elapsed,
                   polls, batch, handled, persisted>>

\* consumer.consume(timeout=1) returns the list after d seconds
Consume(messages, d) ==
    /\ pc = "consume"
    /\ polls < MaxPolls
    /\ elapsed + d <= MaxElapsed
    /\ batch' = messages
    /\ polls' = polls + 1
    /\ elapsed' = elapsed + d
    /\ pc' = "for"
    /\ UNCHANGED <<notice_limit, notice_counter, notices, timeout, handled,
                   persisted>>

\* One turn of the for loop, taking d seconds: the next message of the list
\* goes through the loop body, or the list is exhausted and the while
\* condition is next.  An exception of the body leaves listen.
For(d) ==
    /\ pc = "for"
    /\ elapsed + d <= MaxElapsed
    /\ IF batch = <<>>
       THEN /\ d = 0
            /\ pc' = "while"
            /\ UNCHANGED <<notice_counter, notices, elapsed, batch, handled,
                           persisted>>
       ELSE LET next == for_next(batch)
                out == for_body(notice_counter, notice_limit, notices,
                                next.message, elapsed + d)
            IN  /\ notice_counter' = out.notice_counter
                /\ notices' = out.notices
                /\ handled' = [message |-> next.message,
                               logged |-> out.logged,
                               raised |-> out.raised,
                               saved |-> Saved(out),
                               expired |->
                                  ~while_condition(elapsed, 0, timeout)]
                /\ persisted' =
                    IF Saved(out)
                    THEN [persisted EXCEPT ![next.message.topic] = @ + 1]
                    ELSE persisted
                /\ batch' = next.rest
                /\ elapsed' = elapsed + d
                /\ pc' = IF out.raised = "" THEN "for" ELSE "raised"
    /\ UNCHANGED <<notice_limit, timeout, polls>>

ListenNext ==
  /\ UNCHANGED <<storeVars, registryVars, decodeVars>>
  /\
    \/ \E t \in Timeouts : Listen(t)
    \/ While
    \/ \E messages \in Batches, d \in 0..1 : Consume(messages, d)
    \/ \E d \in 0..1 : For(d)

ListenSpec == ListenInit /\ [][ListenNext]_vars

----------------------------------------------------------------------------
\* The receiver process with a consumer whose every poll returns and whose
\* messages are handled without an exception, called with a positive
\* timeout.

\* the messages parse_message handles without raising, whose time
\* extract_time finds, and those the for loop passes over for their error
LiveMessages ==
    {m \in Messages :
        /\ m.topic \in subscriptions
        /\ \/ m.error # None
           \/ notice_type[m.topic] = "voevent"
           \/ extract_time(m).raised = ""}

LiveBatches == UNION {[1..n -> LiveMessages] : n \in 0..MaxBatch}

\* the positive timeouts that expire within the seconds of the model
LiveTimeouts == 1..MaxElapsed

\* consumer.consume(timeout=1) returns the list after d seconds.  The clock
\* does not stand still for ever: of the polls that return within the same
\* second as the one before there are at most MaxPolls.
LiveConsume(messages, d) ==
    /\ pc = "consume"
    /\ d = 0 => polls < MaxPolls
    /\ elapsed + d <= MaxElapsed
    /\ batch' = messages
    /\ polls' = IF d = 0 THEN polls + 1 ELSE polls
    /\ elapsed' = elapsed + d
    /\ pc' = "for"
    /\ UNCHANGED <<notice_limit, notice_counter, notices, timeout, handled,
                   persisted>>

ListenLiveNext ==
  /\ UNCHANGED <<storeVars, registryVars, decodeVars>>
  /\
    \/ \E t \in LiveTimeouts : Listen(t)
    \/ While
    \/ \E messages \in LiveBatches, d \in 0..1 : LiveConsume(messages, d)
    \/ \E d \in 0..1 : For(d)

\* listen runs in one thread that is never suspended for ever: the while
\* condition is evaluated, the poll returns within its timeout, and the body
\* of the for loop ends
ListenLiveSpec ==
    /\ ListenInit
    /\ [][ListenLiveNext]_vars
    /\ WF_listenVars(While)
    /\ WF_listenVars(\E messages \in LiveBatches, d \in 0..1 :
                    LiveConsume(messages, d))
    /\ WF_listenVars(\E d \in 0..1 : For(d))

----------------------------------------------------------------------------
\* A process that decodes notices and hands the events to the store.

\* the function without the keys
Without(f, keys) == [k \in DOMAIN f \ keys |-> f[k]]

\* The gravitational-wave records: a full one, a Burst, one whose event has
\* no sky map, one whose sky map is null, one without the classification,
\* one whose sky table has no distance, one without
\* superevent_id; and retractions with an event of null, with an event
\* that carries a sky map, and without the "event" key.
GwRecords ==
    LET full == [superevent_id |-> "S1", alert_type |-> "PRELIMINARY",
                 event |-> Some(SkyEvent(2, 64))]
    IN  {full,
         [full EXCEPT !.superevent_id = "S2",
                      !.event = Some(SkyEvent(5, 21))],
         [full EXCEPT !.event =
            Some([SkyEvent(2, 64) EXCEPT !.group = "Burst"])],
         [full EXCEPT !.event = Some(Without(SkyEvent(2, 64), {"skymap"}))],
         [full EXCEPT !.event =
            Some([SkyEvent(2, 64) EXCEPT !.skymap = None])],
         [full EXCEPT !.event =
            Some(Without(SkyEvent(2, 64), {"terrestrial"}))],
         [full EXCEPT !.event =
            Some(Without(SkyEvent(2, 64), {"distmean", "diststd"}))],
         Without(full, {"superevent_id"}),
         [full EXCEPT !.alert_type = "RETRACTION", !.event = None],
         [full EXCEPT !.alert_type = "RETRACTION"],
         Without([full EXCEPT !.alert_type = "RETRACTION"], {"event"})}

\* The notices handed to the decoders: the gravitational-wave records and
\* bytes that are not JSON on igwn.gwalert, a neutrino record with and
\* without an id on icecube, a VOEvent on swift, and a notice of a topic
\* without a registered class.
Notices ==
    {[topic |-> "igwn.gwalert",
      value |-> [encoding |-> "json", record |-> r]] : r \in GwRecords}
    \cup {[topic |-> "igwn.gwalert",
            value |-> [encoding |-> "garbage", record |-> <<>>]]}
    \cup {[topic |-> "icecube",
            value |-> [encoding |-> "json", record |-> r]] :
                r \in {[id |-> "IC1", alert_type |-> "GOLD"],
                       [alert_type |-> "GOLD"]}}
    \cup {[topic |-> "swift",
            value |-> [encoding |-> "xml", record |-> <<>>]]}
    \cup {[topic |-> "gcn.notices.unregistered",
            value |-> [encoding |-> "json",
                       record |-> [superevent_id |-> "S1"]]]}

DecodeInit ==
    /\ StoreOpened
    /\ NoticesConstructed(("igwn.gwalert" :> 2) @@ ("swift" :> (0 - 1)))
    /\ DecodeImported

\* LigoProcessor(message), the constructor called on its own
Construct(notice) ==
    /\ notice.topic = "igwn.gwalert"
    /\ decoded' = [op |-> "LigoProcessor", notice |-> notice,
                   result |-> LigoProcessor_init(notice)]
    /\ UNCHANGED storeVars

\* process_gcn_notice(message)
ProcessGcnNotice(notice) ==
    /\ decoded' = [op |-> "process_gcn_notice", notice |-> notice,
                   result |-> process_gcn_notice(registered_gcn_processors,
                                                 notice)]
    /\ UNCHANGED storeVars

\* db.add_event(notice) with the notice the last decoding call returned
StoreDecoded ==
    /\ decoded # NoCall
    /\ decoded.result.raised = ""
    /\ AddEvent(decoded.result.value, 0, 0)
    /\ UNCHANGED decoded

\* db.add_event(notice) that a storage error ends in its setter k + 1
StoreDecodedInterrupted(k) ==
    /\ decoded # NoCall
    /\ decoded.result.raised = ""
    /\ nAdds < MaxAdds
    /\ events' = add_event_interrupted(events, decoded.result.value,
                                       now, now, k).table
    /\ nAdds' = nAdds + 1
    /\ last' = [op |-> "add_event", event |-> decoded.result.value,
                existed |-> is_duplicate(events, decoded.result.value).value,
                result |-> add_event_interrupted(events,
                            decoded.result.value, now, now, k).result]
    /\ UNCHANGED <<settings, now, schema, decoded>>

DecodeNext ==
  /\ UNCHANGED <<listenVars, registryVars>>
  /\
    \/ \E notice \in Notices : Construct(notice)
    \/ \E notice \in Notices : ProcessGcnNotice(notice)
    \/ StoreDecoded
    \/ \E k \in 0..9 : StoreDecodedInterrupted(k)

DecodeSpec == DecodeInit /\ [][DecodeNext]_vars

----------------------------------------------------------------------------
\* The registry of a process that imports lo2t.decode and registers more.

RegistryInit ==
    /\ StoreOpened
    /\ NoticesConstructed(("igwn.gwalert" :> 2) @@ ("swift" :> (0 - 1)))
    /\ registered_gcn_processors = <<>>
    /\ registrations = <<>>
    /\ resolved = NoCall
    /\ decoded = NoCall

\* processor_class.register()
Register(processor_class) ==
    /\ Len(registrations) < MaxRegistrations
    /\ registered_gcn_processors' =
            add_gcn_processor(registered_gcn_processors, processor_class)
    /\ registrations' = Append(registrations, processor_class)
    /\ UNCHANGED resolved

\* the format keys any class lists, and one that none lists
FormatKeys ==
    UNION {{provided_formats[c][k] : k \in 1..Len(provided_formats[c])} :
            c \in DOMAIN provided_formats}
    \cup {"gcn.notices.unregistered"}

\* _get_processor_factory(message_format), as process_gcn_notice calls it
\* with message.topic()
Resolve(message_format) ==
    /\ resolved' = [op |-> "_get_processor_factory",
                    message_format |-> message_format,
                    result |-> get_processor_factory(
                                registered_gcn_processors, message_format)]
    /\ UNCHANGED <<registered_gcn_processors, registrations>>

RegistryNext ==
  /\ UNCHANGED <<storeVars, listenVars, decodeVars>>
  /\
    \/ \E processor_class \in DOMAIN provided_formats :
            Register(processor_class)
    \/ \E message_format \in FormatKeys : Resolve(message_format)

RegistrySpec == RegistryInit /\ [][RegistryNext]_vars

----------------------------------------------------------------------------
\* Properties of the store.

HasId(tbl, i) == SelectById(tbl, Some(i)) # <<>>

RowOf(tbl, i) == SelectById(tbl, Some(i))[1]

StoredIds(tbl) == {i \in Ids : HasId(tbl, i)}

\* this step is an add_event of an event with id i, which was stored already
Updates(i) ==
    /\ last'.op = "add_event"
    /\ last'.event.index = Some(i)
    /\ HasId(events, i)

\* the state follows an add_event of an event with id i that was stored
\* already
Updated(i) ==
    /\ last.op = "add_event"
    /\ last.event.index = Some(i)
    /\ last.existed
    /\ HasId(events, i)

\* the time_utc column of an event's time
TimeColumn(e) ==
    IF e.time = None THEN NULL ELSE Some(adapt_datetime_iso(e.time[1]))

\* row r holds event e's values in the columns other than the position's
OverwrittenBy(r, e) ==
    /\ r.alert_type = e.alert_type
    /\ r.time_utc = TimeColumn(e)
    /\ r.ra_err = e.position_err[1]
    /\ r.dec_err = e.position_err[2]
    /\ r.data = e.skymap
    /\ r.terrestrial_chance = e.terrestrial_chance
    /\ r.false_alarm_rate = e.false_alarm_rate
    /\ r.has_neutron_star = e.has_neutron_star
    /\ r.has_remnant = e.has_remnant

NoPosition(e) == e.position[1] = None \/ e.position[2] = None

\* row r holds event e's position, its units and its bucket, or NULLs when
\* e has no position
PositionOf(r, e) ==
    IF NoPosition(e)
    THEN /\ r.ra = NULL /\ r.ra_unit = NULL
         /\ r.dec = NULL /\ r.dec_unit = NULL
         /\ r.healpix_index = NULL
    ELSE /\ r.ra = Some(e.position[1][1].value)
         /\ r.ra_unit = Some(e.position[1][1].unit)
         /\ r.dec = Some(e.position[2][1].value)
         /\ r.dec_unit = Some(e.position[2][1].unit)
         /\ r.healpix_index = Some(lonlat_to_healpix(e.position[1][1],
                                                     e.position[2][1]))

SamePosition(r, q) ==
    /\ r.ra = q.ra /\ r.ra_unit = q.ra_unit
    /\ r.dec = q.dec /\ r.dec_unit = q.dec_unit
    /\ r.healpix_index = q.healpix_index

\* C1: the events table holds at most one row per event id, and add_event of
\* an event whose id is stored already adds no row: it returns normally and
\* has updated the existing row.
C1_OneRowPerId ==
    [][/\ \A i \in Ids : Len(SelectById(events', Some(i))) <= 1
       /\ \A i \in Ids : Updates(i) =>
            /\ Len(events') = Len(events)
            /\ last'.result.raised = ""
            /\ RowOf(events', i).alert_type = last'.event.alert_type]_vars

\* an event was added twice under the same id and the table holds one row of it
C1_Witness ==
    \E i \in Ids : Updated(i) /\ Len(SelectById(events, Some(i))) = 1

\* C2 as stated: after add_event(e1) and add_event(e2) with the same id the
\* row's mutable columns all equal e2's values, the empty ones included, and
\* time_created is the one of e1's insert.
C2_AllFieldsOverwritten ==
    [][\A i \in Ids : Updates(i) =>
            /\ Len(SelectById(events', Some(i))) = 1
            /\ OverwrittenBy(RowOf(events', i), last'.event)
            /\ PositionOf(RowOf(events', i), last'.event)
            /\ RowOf(events', i).time_created
                    = RowOf(events, i).time_created]_vars

\* C2 as amended: the same, except that the position, its units and the
\* spatial index keep their stored values when e2 has no position.
C2_OverwrittenExceptEmptyPosition ==
    [][\A i \in Ids : Updates(i) =>
            /\ Len(SelectById(events', Some(i))) = 1
            /\ OverwrittenBy(RowOf(events', i), last'.event)
            /\ IF NoPosition(last'.event)
               THEN SamePosition(RowOf(events', i), RowOf(events, i))
               ELSE PositionOf(RowOf(events', i), last'.event)
            /\ RowOf(events', i).time_created
                    = RowOf(events, i).time_created]_vars

\* a row with a position and a time was updated by an event that has neither:
\* the time is gone, the position is still there
C2_Witness ==
    \E i \in Ids :
        /\ Updated(i)
        /\ NoPosition(last.event)
        /\ RowOf(events, i).time_utc = NULL
        /\ RowOf(events, i).data = NULL
        /\ RowOf(events, i).ra # NULL

\* C3: time_created is set when the id is first inserted, to the clock
\* reading of that call, and no later step changes it while the row exists.
C3_TimeCreatedKept ==
    [][\A i \in Ids :
        /\ (HasId(events, i) /\ HasId(events', i)) =>
                RowOf(events', i).time_created = RowOf(events, i).time_created
        /\ (~HasId(events, i) /\ HasId(events', i)) =>
                /\ RowOf(events', i).time_created # NULL
                /\ TextLeq(strftime_now(now),
                           RowOf(events', i).time_created[1])
                /\ TextLeq(RowOf(events', i).time_created[1],
                           strftime_now(now'))]_vars

\* a row inserted at the first clock reading was updated at a later one and
\* still shows the first
C3_Witness ==
    \E i \in Ids :
        /\ Updated(i)
        /\ now > StartClock
        /\ RowOf(events, i).time_created = Some(strftime_now(StartClock))
        /\ RowOf(events, i).time_modified = Some(strftime_now(now))

\* C4: add_event on a stored id sets the row's time_modified to the time of
\* the call, which is not before the previous time_modified and not before
\* time_created.
C4_TimeModifiedAdvances ==
    [][\A i \in Ids : Updates(i) =>
            /\ RowOf(events', i).time_modified = Some(strftime_now(now'))
            /\ TextLeq(RowOf(events, i).time_modified[1],
                       RowOf(events', i).time_modified[1])
            /\ TextLeq(RowOf(events', i).time_created[1],
                       RowOf(events', i).time_modified[1])]_vars

\* an update has moved time_modified past time_created
C4_Witness ==
    \E i \in Ids :
        /\ Updated(i)
        /\ TextLt(RowOf(events, i).time_created[1],
                  RowOf(events, i).time_modified[1])

\* C5: a RETRACTION for an id stored with a position sets alert_type to
\* RETRACTION and leaves ra, dec, their units and the spatial index as stored
\* (the table has no column for the distance).
C5_RetractionKeepsPosition ==
    [][\A i \in Ids :
        (/\ Updates(i)
         /\ last'.event.alert_type = Some("RETRACTION")
         /\ RowOf(events, i).ra # NULL) =>
            /\ RowOf(events', i).alert_type = Some("RETRACTION")
            /\ SamePosition(RowOf(events', i), RowOf(events, i))]_vars

\* a retraction was stored over a row that has a position
C5_Witness ==
    \E i \in Ids :
        /\ Updated(i)
        /\ last.event.alert_type = Some("RETRACTION")
        /\ RowOf(events, i).alert_type = Some("RETRACTION")
        /\ RowOf(events, i).ra # NULL
        /\ RowOf(events, i).healpix_index # NULL

\* C6: every row's healpix_index is the bucket of the position the row
\* holds, at the store's nside, and is NULL when the row holds no position.
C6_IndexMatchesPosition ==
    \A k \in DOMAIN events :
        IF events[k].ra = NULL \/ events[k].dec = NULL
        THEN events[k].healpix_index = NULL
        ELSE events[k].healpix_index =
                Some(lonlat_to_healpix(
                        Quantity(events[k].ra[1], events[k].ra_unit[1]),
                        Quantity(events[k].dec[1], events[k].dec_unit[1])))

\* an update has written a position over a stored row, whose index is the
\* bucket of the new position
C6_Witness ==
    \E i \in Ids :
        /\ Updated(i)
        /\ ~NoPosition(last.event)
        /\ RowOf(events, i).ra = Some(last.event.position[1][1].value)
        /\ RowOf(events, i).healpix_index = Some(5)

\* the retention of a cleanup call, in half seconds
Retention(tolerance_time) == tolerance_time.value * 120

\* C7: cleanup_old_events(retention) returns having deleted every event whose
\* time_observed is older than now - retention.
C7_CleanupDeletesOld ==
    last.op = "cleanup_old_events" =>
        /\ last.result.raised = ""
        /\ \A k \in DOMAIN events :
            (events[k].time_utc # NULL /\ now >= Retention(last.tolerance)) =>
                ~TextLt(events[k].time_utc[1],
                        adapt_datetime_iso(now - Retention(last.tolerance)))

\* C8: a stored row disappears only in a cleanup_old_events step: add_event,
\* the queries, store_setting and startup keep every row and every id.
C8_OnlyCleanupRemoves ==
    [][\/ last'.op = "cleanup_old_events"
       \/ /\ StoredIds(events) \subseteq StoredIds(events')
          /\ Len(events) <= Len(events')]_vars

\* the store was started again on a table that holds both ids, and holds them
C8_Witness ==
    /\ last.op = "startup"
    /\ StoredIds(events) = Ids

\* C9: is_duplicate(event) returns true exactly when event has an id and a
\* row with that id is in the table, and it changes nothing in the store.
C9_IsDuplicateIffStored ==
    [][last'.op = "is_duplicate" =>
        /\ last'.result.raised = ""
        /\ last'.result.value =
            (/\ last'.event.index # None
             /\ \E k \in DOMAIN events : events[k].id = last'.event.index)
        /\ events' = events
        /\ settings' = settings]_vars

\* is_duplicate has been asked about a stored id, and about an id that is
\* not stored while another is
C9_Witness ==
    /\ last.op = "is_duplicate"
    /\ \/ last.result.value /\ Len(events) = 2
       \/ ~last.result.value /\ last.event.index # None /\ events # <<>>

\* the instants within tolerance of the event's time, as stored in time_utc
NearTimes(event, tolerance_time) ==
    LET w == IF tolerance_time.type = "timedelta" THEN tolerance_time.value
             ELSE Retention(tolerance_time)
    IN  {adapt_datetime_iso(h) :
            h \in (IF event.time[1] > w THEN event.time[1] - w ELSE 0)
                    .. (event.time[1] + w)}

\* C10: is_near_in_time(event, window) returns exactly the stored events
\* whose time_observed lies in [event.time - window, event.time + window].
C10_NearInTimeClosedInterval ==
    (last.op = "is_near_in_time" /\ last.event.time # None) =>
        /\ last.result.raised = ""
        /\ last.result.value =
            SelectSeq(events, LAMBDA r :
                /\ r.time_utc # NULL
                /\ r.time_utc[1] \in NearTimes(last.event, last.tolerance))

\* the bucket of the event's position, None when the position is empty
BucketOf(e) ==
    IF NoPosition(e) THEN None
    ELSE Some(lonlat_to_healpix(e.position[1][1], e.position[2][1]))

\* C11: is_near_in_position(event) returns stored events only from the
\* event's own bucket and its neighbour buckets, every stored event of the
\* event's own bucket among them, and an empty list when event.position is
\* empty.
C11_NearInPositionBuckets ==
    last.op = "is_near_in_position" =>
        /\ last.result.raised = ""
        /\ \A k \in 1..Len(events) :
              SqlEq(events[k].healpix_index, BucketOf(last.event)) =>
                \E j \in 1..Len(last.result.value) :
                    last.result.value[j] = events[k]
        /\ \A j \in 1..Len(last.result.value) :
              /\ \E k \in 1..Len(events) : events[k] = last.result.value[j]
              /\ last.result.value[j].healpix_index # NULL
        /\ NoPosition(last.event) => last.result.value = <<>>

----------------------------------------------------------------------------
\* Properties of the ingestion loop, checked under ListenSpec.

\* the for loop is about to take a message
Taking == pc = "for" /\ batch # <<>>

\* the message has no error and its topic is subscribed to
ErrorFree(m) == m.error = None /\ m.topic \in subscriptions

\* counting the message leaves its topic within the limit
WithinLimit(m) ==
    \/ notice_limit[m.topic] > notice_counter[m.topic] + 1
    \/ notice_limit[m.topic] < 0

\* the value is of the encoding the topic's message_type names
ParsesAsExpected(m) ==
    m.value.encoding =
        (IF notice_type[m.topic] = "json" THEN "json" ELSE "xml")

\* the audit copy of the message is in the notices directory
AuditCopy(dir, m) ==
    \E f \in dir : f.name.topic = m.topic /\ f.content = Some(m.value)

\* C12: no error raised while handling a message ends listen: listen is
\* never left by an exception, and it returns only when its timeout is
\* exhausted.
C12_NoErrorEndsListen ==
    /\ pc # "raised"
    /\ pc = "returned" => (timeout >= 0 /\ elapsed >= timeout)

\* C13: a message of a topic that is neither subscribed to nor registered
\* is logged and dropped: the counters, the notices directory and the store
\* are unchanged by it, and the loop goes on.
C13_UnknownTopicDropped ==
    [][(/\ Taking
        /\ Head(batch).error = None
        /\ Head(batch).topic \notin subscriptions
        /\ Head(batch).topic \notin DOMAIN registered_gcn_processors) =>
            /\ notice_counter' = notice_counter
            /\ notices' = notices
            /\ persisted' = persisted
            /\ events' = events
            /\ handled'.logged # <<>>
            /\ pc' = "for"]_vars

\* C14: for a message within its topic limit whose payload does not parse
\* as the expected encoding, the audit copy is written, and no event is
\* inserted or updated.
C14_AuditCopyOfMalformed ==
    [][(/\ Taking
        /\ ErrorFree(Head(batch))
        /\ WithinLimit(Head(batch))
        /\ ~ParsesAsExpected(Head(batch))) =>
            /\ AuditCopy(notices', Head(batch))
            /\ events' = events]_vars

\* C15: a message whose error() is non-null is skipped without effect: no
\* counter is incremented, no file is written, the store is unchanged, and
\* the loop goes on with the rest of the batch.
C15_ErrorMessageSkipped ==
    [][(Taking /\ Head(batch).error # None) =>
            /\ notice_counter' = notice_counter
            /\ notices' = notices
            /\ persisted' = persisted
            /\ events' = events
            /\ pc' = "for"
            /\ batch' = Tail(batch)]_vars

\* an error message has been skipped and the rest of its batch is next
C15_Witness ==
    /\ handled # NoMessage
    /\ handled.message.error # None
    /\ Taking

\* C16: for a topic with a limit L >= 0, at most L of its messages are ever
\* persisted, and a message that arrives when the topic's counter has
\* reached L is counted but neither parsed nor persisted nor stored.
C16_LimitCapsPersisted ==
    [][/\ \A topic \in subscriptions :
            notice_limit[topic] >= 0 =>
                persisted'[topic] <= notice_limit[topic]
       /\ (/\ Taking
           /\ ErrorFree(Head(batch))
           /\ notice_limit[Head(batch).topic] >= 0
           /\ notice_counter[Head(batch).topic]
                >= notice_limit[Head(batch).topic]) =>
                /\ notice_counter'[Head(batch).topic] =
                        notice_counter[Head(batch).topic] + 1
                /\ notices' = notices
                /\ persisted' = persisted
                /\ events' = events
                /\ ~handled'.saved
                /\ \A k \in 1..Len(handled'.logged) :
                        handled'.logged[k] = "INFO stopping listening"
                /\ pc' = "for"]_vars

\* a message has been read and passed over on a topic whose counter had
\* reached its limit of L >= 1
C16_Witness ==
    /\ handled # NoMessage
    /\ ErrorFree(handled.message)
    /\ notice_limit[handled.message.topic] >= 1
    /\ notice_counter[handled.message.topic]
            > notice_limit[handled.message.topic]
    /\ ~handled.saved

\* C17 as stated: with a negative or a zero timeout listen never returns.
C17_NonPositiveTimeoutNeverReturns ==
    timeout <= 0 => pc # "returned"

\* C17: with a negative timeout listen never returns: every evaluation of
\* the while condition leads to the next poll.  With a timeout of zero the
\* first evaluation of the while condition makes listen return.
C17_NegativeTimeoutNeverReturns ==
    [][/\ timeout' < 0 => pc' # "returned"
       /\ (pc = "while" /\ timeout < 0) => pc' = "consume"
       /\ (pc = "while" /\ timeout = 0) =>
                (pc' = "returned" /\ polls' = 0)]_vars

\* listen with a negative timeout has completed a poll and is at the next
C17_Witness ==
    /\ timeout < 0
    /\ polls >= 1
    /\ pc = "consume"

\* C18: the messages of a batch are taken in the order of the list, each
\* handled before the next is taken, and the timeout is checked again and
\* the next poll made only once the batch is exhausted, also when the
\* timeout expires while the batch is being processed.
C18_BatchProcessedInOrder ==
    [][/\ Taking =>
            /\ handled'.message = Head(batch)
            /\ polls' = polls
            /\ pc' \in {"for", "raised"}
            /\ pc' = "for" => batch' = Tail(batch)
       /\ (pc' \in {"while", "returned", "consume"} /\ pc' # pc) =>
            batch = <<>>
       /\ polls' # polls => batch = <<>>]_vars

\* a message has been handled although the timeout had expired when the
\* for loop took it
C18_Witness ==
    /\ handled # NoMessage
    /\ handled.expired
    /\ handled.raised = ""
    /\ timeout > 0
    /\ polls = 1

\* C19: every error-free message within its topic limit is routed to its
\* decoder and the event handed to the store: after it is handled the
\* store has a row with the event's id.
C19_HandledMessageStored ==
    [][(/\ Taking
        /\ ErrorFree(Head(batch))
        /\ WithinLimit(Head(batch))
        /\ Head(batch).topic \in DOMAIN registered_gcn_processors
        /\ Head(batch).value.superevent_id # None) =>
            HasId(events', Head(batch).value.superevent_id[1])]_vars

----------------------------------------------------------------------------
\* Properties of the registry, checked under RegistrySpec.

\* whether the class lists the key
Lists(processor_class, key) ==
    \E k \in 1..Len(provided_formats[processor_class]) :
        provided_formats[processor_class][k] = key

\* the positions of the registrations that listed the key
ListedAt(key) ==
    {k \in 1..Len(registrations) : Lists(registrations[k], key)}

\* C20: after any sequence of registrations, resolving a key returns the
\* class of the last registration that listed the key, whatever was
\* registered for it before, and fails for a key that no registration
\* listed; so a registration leaves the entries of the keys it does not
\* list as they were.
C20_LastRegistrationWins ==
    \A key \in FormatKeys :
        LET found == get_processor_factory(registered_gcn_processors, key)
        IN  IF ListedAt(key) = {} THEN found.raised = "ValueError"
            ELSE /\ found.raised = ""
                 /\ \E k \in ListedAt(key) :
                        /\ \A j \in ListedAt(key) : j <= k
                        /\ found.value = registrations[k]

\* a key has been registered for two different classes, one after the
\* other, and a key registered before that was not listed again
C20_Witness ==
    /\ \E key \in FormatKeys : \E j, k \in ListedAt(key) :
            j < k /\ registrations[j] # registrations[k]
    /\ \E key \in FormatKeys :
            ListedAt(key) # {} /\ Len(registrations) \notin ListedAt(key)

\* C21: resolving a key fails with the unknown-format error (ValueError)
\* when the registry has no entry for it and returns the registered class
\* when it has one; resolving leaves the registry as it is, and the
\* registry changes only in a registration.
C21_ResolveTotalAndPure ==
    [][/\ (resolved' # resolved) =>
            /\ registered_gcn_processors' = registered_gcn_processors
            /\ resolved'.result =
                 (IF resolved'.message_format
                        \in DOMAIN registered_gcn_processors
                  THEN Return(
                        registered_gcn_processors[resolved'.message_format])
                  ELSE Raised("ValueError"))
       /\ (registered_gcn_processors' # registered_gcn_processors) =>
            registrations' # registrations]_vars

\* both outcomes of resolving have been seen on a registry with entries:
\* the last call failed for a key without an entry
C21_Witness ==
    /\ resolved # NoCall
    /\ resolved.result.raised = "ValueError"
    /\ DOMAIN registered_gcn_processors # {}
    /\ resolved.message_format \notin DOMAIN registered_gcn_processors

----------------------------------------------------------------------------
\* Properties of the decoding path, checked under DecodeSpec.

\* the last decoding call was made on a JSON notice of the topic
DecodedFrom(topic) ==
    /\ decoded # NoCall
    /\ decoded.notice.topic = topic
    /\ decoded.notice.value.encoding = "json"

\* C22: for a gravitational-wave notice with alert_type RETRACTION the
\* decoding call returns an Event with only id and alert_type set: time,
\* position, distance, sky map and classification fields are empty, whatever
\* the payload carries besides.
C22_RetractionOnlyIdAndType ==
    (/\ DecodedFrom("igwn.gwalert")
     /\ {"superevent_id", "alert_type"}
            \subseteq DOMAIN decoded.notice.value.record
     /\ decoded.notice.value.record.alert_type = "RETRACTION") =>
        /\ decoded.result.raised = ""
        /\ decoded.result.value.index =
                Some(decoded.notice.value.record.superevent_id)
        /\ decoded.result.value.alert_type = Some("RETRACTION")
        /\ decoded.result.value.time = None
        /\ decoded.result.value.position = <<None, None>>
        /\ decoded.result.value.distance = <<None, None>>
        /\ decoded.result.value.skymap = None
        /\ decoded.result.value.terrestrial_chance = None
        /\ decoded.result.value.false_alarm_rate = None
        /\ decoded.result.value.has_neutron_star = None
        /\ decoded.result.value.has_remnant = None

\* the key of the record that names the event, for the topic
IdentifyingKey(topic) ==
    IF topic = "igwn.gwalert" THEN "superevent_id" ELSE "id"

\* C23: a decoding call on a record without its identifying key raises,
\* and no decoding call returns an Event whose id is empty.
C23_NoEventWithoutId ==
    decoded # NoCall =>
        /\ (/\ decoded.notice.value.encoding = "json"
            /\ IdentifyingKey(decoded.notice.topic)
                    \notin DOMAIN decoded.notice.value.record) =>
                decoded.result.raised # ""
        /\ decoded.result.raised = "" =>
                decoded.result.value.index # None

\* C24: add_event is one atomic unit of work: when a storage error ends the
\* call, the table is either as before the call or as after a complete
\* call, never in between.
C24_AddEventAtomic ==
    [][(/\ last' # last
        /\ last'.op = "add_event"
        /\ last'.result.raised = "OperationalError") =>
            \/ events' = events
            \/ events' = add_event(events, last'.event, now, now).table]_vars

-----------------------------------------------------------------------------
\* Properties of the tables of the store.

\* C25: after startup the database holds three distinct tables, settings,
\* events and triggers, each with the columns of its own CREATE TABLE
\* statement, and triggers are kept in another table than events.
C25_ThreeDistinctTables ==
    /\ Cardinality(DOMAIN schema) = 3
    /\ event_table # trigger_table
    /\ schema["settings"] = {"name", "value"}
    /\ schema[event_table] = Columns
    /\ schema[trigger_table] = TriggerColumns

\* C26: startup on an existing store with the same configuration leaves the
\* tables that exist, every event row and the recorded start time as they
\* are, and every setting when the stored settings are the configuration's.
C26_StartupIdempotent ==
    [][last'.op = "startup" =>
          /\ schema' = schema
          /\ events' = events
          /\ settings'.start_time = settings.start_time
          /\ (\A n \in DOMAIN config : settings[n] = config[n]) =>
                settings' = settings]_vars

\* a second startup has run, later than the first, on a store holding rows
C26_Witness ==
    /\ last.op = "startup"
    /\ Len(events) > 0
    /\ now > settings.start_time
    /\ \A n \in DOMAIN config : settings[n] = config[n]

\* the row holds the event's point-estimate position and the healpix index
\* of that position at the store's resolution
StoredPositionAndIndex(row, event) ==
    /\ row.ra = Some(event.position[1][1].value)
    /\ row.dec = Some(event.position[2][1].value)
    /\ row.healpix_index =
            Some(lonlat_to_healpix(event.position[1][1],
                                   event.position[2][1]))

\* the row holds the distance (mean, stddev) the decoder read
StoredDistance(row, event) ==
    /\ "distance" \in DOMAIN row
    /\ row.distance = event.distance

\* a notice decoded from a gravitational-wave message whose sky table
\* carries the distance has been handed to add_event, which returned
SkyEventStored(call) ==
    /\ call.op = "add_event"
    /\ call.result.raised = ""
    /\ "distance" \in DOMAIN call.event
    /\ call.event.distance # <<None, None>>

\* C28: after add_event of an Event decoded from a gravitational-wave
\* message whose sky table carries distance metadata, get_event returns a row
\* with the decoder's distance, its position and the healpix index of the
\* position.
C28_SkyEventStoredWithDistance ==
    [][(last' # last /\ SkyEventStored(last')) =>
          LET row == get_event(events', get_index(last'.event))
          IN  /\ row # None
              /\ StoredPositionAndIndex(row[1], last'.event)
              /\ StoredDistance(row[1], last'.event)]_vars

-----------------------------------------------------------------------------
\* Properties of the message limit and of the end of listen.

\* the for loop takes an error-free message of a subscribed topic from the
\* list and handles it without an exception
HandlesErrorFree(message) ==
    /\ pc = "for"
    /\ batch # <<>>
    /\ batch' # batch
    /\ message = for_next(batch).message
    /\ message.error = None
    /\ message.topic \in DOMAIN notice_counter
    /\ handled'.raised = ""

\* C29: an error-free message is persisted if and only if the limit of its
\* topic is negative or fewer than limit messages of the topic were
\* received before it, so that with a limit L >= 0 the first L messages of
\* the topic are persisted, the L-th included.
C29_PersistedIffWithinLimit ==
    [][\A message \in Messages :
          HandlesErrorFree(message) =>
            (handled'.saved <=>
                \/ notice_limit[message.topic] < 0
                \/ notice_counter[message.topic]
                        < notice_limit[message.topic])]_vars

\* C30: with a positive timeout, polls that return and messages handled
\* without an exception, listen eventually returns.
C30_ListenReturns ==
    (pc = "while" /\ timeout > 0) ~> (pc = "returned")

\* listen has returned from a positive timeout after a poll that yielded a
\* message, handled without an exception
C30_Witness ==
    /\ pc = "returned"
    /\ timeout > 0
    /\ elapsed >= timeout
    /\ handled # NoMessage
    /\ handled.raised = ""

-----------------------------------------------------------------------------
\* Properties of the gravitational-wave decoder, checked under DecodeSpec.

\* the last decoding call was made on a gravitational-wave notice that is
\* not a retraction and has an event sub-record with group and time
DecodedAlert ==
    /\ DecodedFrom("igwn.gwalert")
    /\ {"superevent_id", "alert_type", "event"}
            \subseteq DOMAIN decoded.notice.value.record
    /\ decoded.notice.value.record.alert_type # "RETRACTION"
    /\ decoded.notice.value.record.event # None
    /\ {"group", "time"}
            \subseteq DOMAIN decoded.notice.value.record.event[1]

\* the event sub-record of the notice
AlertEvent == decoded.notice.value.record.event[1]

\* the event sub-record has no sky map: the key is absent or its value null
NoSkyTable(event) ==
    \/ "skymap" \notin DOMAIN event
    \/ event.skymap = None

\* C31: for a non-RETRACTION gravitational-wave notice without a sky map
\* (key absent or value null) the decoding call raises nothing and returns
\* an Event whose position and distance are empty.
C31_NoSkyTableNoError ==
    (DecodedAlert /\ NoSkyTable(AlertEvent)) =>
        /\ decoded.result.raised = ""
        /\ decoded.result.value.position = <<None, None>>
        /\ decoded.result.value.distance = <<None, None>>

\* the attribute of the Event and the key of the event sub-record it is
\* read from
OptionalFields ==
    {<<"terrestrial_chance", "terrestrial">>, <<"false_alarm_rate", "far">>,
     <<"has_neutron_star", "hasns">>, <<"has_remnant", "hasremnant">>}

\* C32: for a gravitational-wave notice of the accepted group the decoding
\* call raises nothing, and terrestrial_chance, false_alarm_rate,
\* has_neutron_star and has_remnant each hold the record's value when the
\* record carries it and are empty when it does not, with or without a sky
\* map.
C32_OptionalFieldsExtracted ==
    (DecodedAlert /\ AlertEvent.group = "CBC") =>
        /\ decoded.result.raised = ""
        /\ \A f \in OptionalFields :
                decoded.result.value[f[1]] =
                    IF f[2] \in DOMAIN AlertEvent
                    THEN Some(AlertEvent[f[2]]) ELSE None

\* the attributes GcnNoticeProcessor, JsonProcessor and LigoProcessor give
\* an Event
LigoAttributes ==
    DOMAIN GcnNoticeProcessor
        \cup {"topic", "skymap", "terrestrial_chance", "false_alarm_rate",
              "has_neutron_star", "has_remnant"}

\* the Event has only its id and alert_type set
OnlyIdAndType(event, record) ==
    /\ event.index = Some(record.superevent_id)
    /\ event.alert_type = Some(record.alert_type)
    /\ event.time = None
    /\ event.position = <<None, None>>
    /\ event.distance = <<None, None>>
    /\ event.skymap = None
    /\ \A f \in OptionalFields : event[f[1]] = None

\* C33: for a gravitational-wave notice whose group is not the accepted
\* one the decoding call returns an Event with only id and alert_type set,
\* and with a marker, an attribute besides those of an accepted Event, that
\* says it was filtered out.
C33_FilteredOutMarked ==
    (DecodedAlert /\ AlertEvent.group # "CBC") =>
        /\ decoded.result.raised = ""
        /\ OnlyIdAndType(decoded.result.value, decoded.notice.value.record)
        /\ \E a \in DOMAIN decoded.result.value : a \notin LigoAttributes

\* the notice is well formed for its format: a VOEvent document on a
\* voevent topic, a JSON document on a json topic, and for a
\* gravitational-wave notice one of the accepted group with its sky map and
\* all its fields
WellFormed(notice) ==
    IF notice.topic = "swift" THEN notice.value.encoding = "xml"
    ELSE /\ notice.value.encoding = "json"
         /\ notice.topic = "igwn.gwalert" =>
                /\ {"superevent_id", "alert_type", "event"}
                        \subseteq DOMAIN notice.value.record
                /\ notice.value.record.event # None
                /\ DOMAIN notice.value.record.event[1]
                        = DOMAIN SkyEvent(2, 64)
                /\ notice.value.record.event[1].skymap # None

\* C34: for every format key of the registry after import,
\* process_gcn_notice on a well-formed notice of that format runs process
\* and parse_notice to their end and returns the processor object.
C34_RegisteredDecodersComplete ==
    (/\ decoded # NoCall
     /\ decoded.op = "process_gcn_notice"
     /\ decoded.notice.topic \in DOMAIN registered_gcn_processors
     /\ WellFormed(decoded.notice)) =>
        decoded.result.raised = ""

-----------------------------------------------------------------------------
\* Properties of the store's settings and of rows without an id.

\* C35: store_setting(name, value, overwrite) leaves the value of a setting
\* that exists as it is when overwrite is false and replaces it when
\* overwrite is true; a setting that does not exist is inserted either way.
C35_OverwriteFlag ==
    [][last'.op = "store_setting" =>
          /\ last'.name \in DOMAIN settings'
          /\ last'.name \notin DOMAIN settings =>
                settings'[last'.name] = last'.value
          /\ (last'.name \in DOMAIN settings /\ ~last'.overwrite) =>
                settings'[last'.name] = settings[last'.name]
          /\ (last'.name \in DOMAIN settings /\ last'.overwrite) =>
                settings'[last'.name] = last'.value]_vars

\* the last call on the store was an add_event that returned 0
AddEventReturned0 ==
    /\ last.op = "add_event"
    /\ last.result.raised = ""
    /\ last.result.value = 0

\* C36: when add_event(event) has returned 0, is_duplicate(event) is true:
\* the events table has a row with the event's id, also for an event
\* without a topic attribute.
C36_AddedIsDuplicate ==
    AddEventReturned0 => is_duplicate(events, last.event).value

\* C37: every row of the events table has a non-empty id: add_event of an
\* event whose index is None inserts no row.
C37_EveryRowHasId ==
    \A k \in 1..Len(events) : events[k].id # NULL
====
